---------------------------- MODULE Spec2Model ----------------------------
(***************************************************************************)
(* The fantasy calendar of scripts/fantasy_calendar.py: the Calendar class *)
(* (construction, timestamp <-> date, date <-> string, verify_date) as a   *)
(* state machine whose actions are the calls a client can make.            *)
(*                                                                         *)
(* Strings are TLA+ strings; TLC evaluates Len, \o and SubSeq on them.     *)
(* A Python exception is a result whose err field names the exception.     *)
(***************************************************************************)
EXTENDS Integers, Sequences, FiniteSets, TLC

VARIABLES cal, op, arg, res

vars == <<cal, op, arg, res>>

(***************************************************************************)
(* Bounds of the model.                                                    *)
(***************************************************************************)
MaxT == 12
MaxYear == 2
MaxShift == 3

(***************************************************************************)
(* Results: a returned value, or a raised exception.                       *)
(***************************************************************************)
Ok(v) == [err |-> "", val |-> v]
Raise(e) == [err |-> e, val |-> 0]

Min(a, b) == IF a <= b THEN a ELSE b
Abs(n) == IF n < 0 THEN -n ELSE n

(***************************************************************************)
(* Characters and the character classes of Python's re.                    *)
(***************************************************************************)
Digits == {"0", "1", "2", "3", "4", "5", "6", "7", "8", "9"}
Letters ==
    {"a", "b", "c", "d", "e", "f", "g", "h", "i", "j", "k", "l", "m",
     "n", "o", "p", "q", "r", "s", "t", "u", "v", "w", "x", "y", "z",
     "A", "B", "C", "D", "E", "F", "G", "H", "I", "J", "K", "L", "M",
     "N", "O", "P", "Q", "R", "S", "T", "U", "V", "W", "X", "Y", "Z"}

CharAt(s, i) == SubSeq(s, i, i)

\* \d, \D, \w, \S, " " and . on one character
InClass(c, cls) ==
    CASE cls = "d" -> c \in Digits
      [] cls = "D" -> c \notin Digits
      [] cls = "w" -> c \in Digits \cup Letters \cup {"_"}
      [] cls = "S" -> c # " "
      [] cls = "sp" -> c = " "
      [] cls = "any" -> TRUE

(***************************************************************************)
(* A pattern is a sequence of items, matched from the start of the string  *)
(* (re.match, ^) to its end ($):                                           *)
(*   [kind |-> "cls", cls, min, one]  a class, once (one) or greedily      *)
(*                                    at least min times                   *)
(*   [kind |-> "lit", text]           a literal                            *)
(*   [kind |-> "alt", alts]           alternatives, tried in order         *)
(* The optional group (\w+)? is the item \w* : the same choices in the     *)
(* same order, the group being None exactly when it is empty.              *)
(***************************************************************************)
Plus(cls) == [kind |-> "cls", cls |-> cls, min |-> 1, one |-> FALSE]
Star(cls) == [kind |-> "cls", cls |-> cls, min |-> 0, one |-> FALSE]
One(cls) == [kind |-> "cls", cls |-> cls, min |-> 1, one |-> TRUE]
Lit(text) == [kind |-> "lit", text |-> text]
Alt(alts) == [kind |-> "alt", alts |-> alts]

\* ^(\d+)\/(\d+)\/(\d+) *(\w+)?$
PATTERN_SLASH_DATE ==
    <<Plus("d"), Lit("/"), Plus("d"), Lit("/"), Plus("d"), Star("sp"), Star("w")>>

\* ^(\d+)(st|nd|rd|th) +of +(\D+\S) +(\d+) *(\w+)?$
PATTERN_WORDED_DATE ==
    <<Plus("d"), Alt(<<"st", "nd", "rd", "th">>), Plus("sp"), Lit("of"), Plus("sp"),
      Plus("D"), One("S"), Plus("sp"), Plus("d"), Star("sp"), Star("w")>>

\* ^(.*) (\d+) *(\w+)?$
PATTERN_SPECIAL_DATE ==
    <<Star("any"), Lit(" "), Plus("d"), Star("sp"), Star("w")>>

NoMatch == [ok |-> FALSE, ends |-> <<>>]

\* how many characters of s after position pos are in the class, in a row
RECURSIVE Run(_, _, _)
Run(s, pos, cls) ==
    IF pos < Len(s) /\ InClass(CharAt(s, pos + 1), cls)
    THEN 1 + Run(s, pos + 1, cls)
    ELSE 0

StartsWith(s, pos, text) ==
    /\ pos + Len(text) <= Len(s)
    /\ SubSeq(s, pos + 1, pos + Len(text)) = text

(***************************************************************************)
(* Backtracking match of the items k.. of pat against s from position pos  *)
(* (the number of characters consumed so far).  The result holds, for each *)
(* item from k on, the position at which it ends.  A greedy item takes the *)
(* longest run first and gives characters back one at a time.              *)
(***************************************************************************)
RECURSIVE MatchFrom(_, _, _, _), TryCount(_, _, _, _, _), TryAlt(_, _, _, _, _)

\* the item ends at position end and the rest of the pattern matched as r
Cons(end, r) ==
    IF r.ok THEN [ok |-> TRUE, ends |-> <<end>> \o r.ends] ELSE NoMatch

\* n repetitions, the rest matching as r; else one repetition fewer
OrFewer(pat, s, k, pos, n, r) ==
    IF r.ok THEN Cons(pos + n, r) ELSE TryCount(pat, s, k, pos, n - 1)

\* alternative a, the rest matching as r; else the next alternative
OrNextAlt(pat, s, k, pos, a, r) ==
    IF r.ok THEN Cons(pos + Len(pat[k].alts[a]), r) ELSE TryAlt(pat, s, k, pos, a + 1)

MatchItem(pat, s, k, pos, it) ==
    CASE it.kind = "lit" ->
           IF StartsWith(s, pos, it.text)
           THEN Cons(pos + Len(it.text), MatchFrom(pat, s, k + 1, pos + Len(it.text)))
           ELSE NoMatch
      [] it.kind = "alt" -> TryAlt(pat, s, k, pos, 1)
      [] it.kind = "cls" /\ it.one -> TryCount(pat, s, k, pos, Min(Run(s, pos, it.cls), 1))
      [] it.kind = "cls" /\ ~it.one -> TryCount(pat, s, k, pos, Run(s, pos, it.cls))

MatchFrom(pat, s, k, pos) ==
    IF k > Len(pat)
    THEN IF pos = Len(s) THEN [ok |-> TRUE, ends |-> <<>>] ELSE NoMatch
    ELSE MatchItem(pat, s, k, pos, pat[k])

TryCount(pat, s, k, pos, n) ==
    IF n < pat[k].min
    THEN NoMatch
    ELSE OrFewer(pat, s, k, pos, n, MatchFrom(pat, s, k + 1, pos + n))

TryAlt(pat, s, k, pos, a) ==
    IF a > Len(pat[k].alts)
    THEN NoMatch
    ELSE OrNextAlt(pat, s, k, pos, a,
                   IF StartsWith(s, pos, pat[k].alts[a])
                   THEN MatchFrom(pat, s, k + 1, pos + Len(pat[k].alts[a]))
                   ELSE NoMatch)

\* re.match(pattern, s)
Match(pat, s) == MatchFrom(pat, s, 1, 0)

\* the text matched by the items from..to of a successful match
Group(s, m, from, to) ==
    SubSeq(s, (IF from = 1 THEN 0 ELSE m.ends[from - 1]) + 1, m.ends[to])

(***************************************************************************)
(* int(text) of a string of digits, and the decimal digits of a natural    *)
(* number (the f-string of an int that is not negative).                   *)
(***************************************************************************)
DigitVal(c) ==
    CASE c = "0" -> 0 [] c = "1" -> 1 [] c = "2" -> 2 [] c = "3" -> 3
      [] c = "4" -> 4 [] c = "5" -> 5 [] c = "6" -> 6 [] c = "7" -> 7
      [] c = "8" -> 8 [] c = "9" -> 9

DigitChar(n) ==
    CASE n = 0 -> "0" [] n = 1 -> "1" [] n = 2 -> "2" [] n = 3 -> "3"
      [] n = 4 -> "4" [] n = 5 -> "5" [] n = 6 -> "6" [] n = 7 -> "7"
      [] n = 8 -> "8" [] n = 9 -> "9"

RECURSIVE ParseInt(_)
ParseInt(text) ==
    IF Len(text) = 0
    THEN 0
    ELSE 10 * ParseInt(SubSeq(text, 1, Len(text) - 1)) + DigitVal(CharAt(text, Len(text)))

RECURSIVE FormatNat(_)
FormatNat(n) ==
    IF n < 10 THEN DigitChar(n) ELSE FormatNat(n \div 10) \o DigitChar(n % 10)

(***************************************************************************)
(* Python's arithmetic and list indexing.                                  *)
(***************************************************************************)
\* int(b) of a bool
BoolInt(b) == IF b THEN 1 ELSE 0

\* divmod(a, n): floor division, the remainder has the sign of n
PyDivmod(a, n) ==
    CASE n = 0 -> Raise("ZeroDivisionError")
      [] n > 0 -> Ok(<<a \div n, a % n>>)
      [] n < 0 -> Ok(<<(-a) \div (-n), -((-a) % (-n))>>)

\* lst[i]: a negative index counts from the end
PyIndex(lst, i) ==
    CASE i >= 0 /\ i < Len(lst) -> Ok(lst[i + 1])
      [] i < 0 /\ i >= -Len(lst) -> Ok(lst[Len(lst) + i + 1])
      [] OTHER -> Raise("IndexError")

\* lst[:n] for n >= 0 (a negative n does not occur: see date_to_timestamp)
PyPrefix(lst, n) == SubSeq(lst, 1, Min(n, Len(lst)))

RECURSIVE SumDays(_)
SumDays(months) ==
    IF Len(months) = 0 THEN 0 ELSE months[1].days + SumDays(Tail(months))

\* Calendar.num_days_of_year
num_days_of_year(c) == SumDays(c.months)

(***************************************************************************)
(* nth_from_day                                                            *)
(***************************************************************************)
nth_from_day(day) ==
    IF day < 0
    THEN Raise("ValueError")
    ELSE LET ones_digit == day % 10
             tens_digit == (day \div 10) % 10
             suffix == CASE tens_digit = 1 -> "th"
                         [] tens_digit # 1 /\ ones_digit = 1 -> "st"
                         [] tens_digit # 1 /\ ones_digit = 2 -> "nd"
                         [] tens_digit # 1 /\ ones_digit = 3 -> "rd"
                         [] OTHER -> "th"
         IN Ok(FormatNat(day) \o suffix)

(***************************************************************************)
(* Calendar.verify_date.  year_ok and month_ok are computed first; day_ok  *)
(* indexes the month list with month - 1 only when day > 0 (and short-     *)
(* circuits), and the index raises IndexError when it is out of range.     *)
(***************************************************************************)
VerifyDateNoYear(c, date) ==
    LET month == date[2]
        day == date[3]
        month_ok == month > 0 /\ month <= Len(c.months)
        m == PyIndex(c.months, month - 1)
    IN IF day > 0 /\ m.err # ""
       THEN Raise(m.err)
       ELSE Ok(month_ok /\ day > 0 /\ day <= m.val.days)

verify_date(c, date) ==
    LET year == date[1]
        month == date[2]
        day == date[3]
        year_ok == c.has_year_zero \/ year # 0
        month_ok == month > 0 /\ month <= Len(c.months)
        m == PyIndex(c.months, month - 1)
    IN IF day > 0 /\ m.err # ""
       THEN Raise(m.err)
       ELSE Ok(year_ok /\ month_ok /\ day > 0 /\ day <= m.val.days)

(***************************************************************************)
(* Calendar.timestamp_to_date                                              *)
(***************************************************************************)
\* timestamp -= self._day_zero
ShiftInAdd(c, timestamp) == timestamp + c.day_zero

ShiftIn(c, timestamp) == timestamp - c.day_zero

\* the for loop over the months: <<month, day>> once it breaks or runs out
RECURSIVE WalkMonths(_, _, _)
WalkMonths(months, month, day) ==
    IF Len(months) = 0
    THEN <<month, day>>
    ELSE IF day > months[1].days
         THEN WalkMonths(Tail(months), month + 1, day - months[1].days)
         ELSE <<month, day>>

\* year += int(year >= 0 or self._has_year_zero)
YearOfIndexAlways(c, year) == year + 1

YearOfIndexMinus(c, year) == year - BoolInt(year >= 0 \/ c.has_year_zero)

YearOfIndexDisabled(c, year) == year + BoolInt(year >= 0 \/ ~c.has_year_zero)

YearOfIndex(c, year) == year + BoolInt(year >= 0 \/ c.has_year_zero)

\* return year, month, day
DateOfWalk(c, year, md) == Ok(<<YearOfIndex(c, year), md[1], md[2]>>)

\* year, day = divmod(...); day += 1; the loop
DateOfDivmod(c, dm) ==
    IF dm.err # ""
    THEN Raise(dm.err)
    ELSE DateOfWalk(c, dm.val[1], WalkMonths(c.months, 1, dm.val[2] + 1))

timestamp_to_date(c, timestamp) ==
    DateOfDivmod(c, PyDivmod(ShiftIn(c, timestamp), num_days_of_year(c)))

(***************************************************************************)
(* Calendar.date_to_timestamp                                              *)
(***************************************************************************)
\* year -= int(year >= 0 or self._has_year_zero)
IndexOfYearAlways(c, year) == year - 1

IndexOfYear(c, year) == year - BoolInt(year >= 0 \/ c.has_year_zero)

\* v is what verify_date(date) returned or raised
TimestampIfValid(c, date, v) ==
    CASE v.err # "" -> Raise(v.err)
      [] v.err = "" /\ ~v.val -> Raise("ValueError")
      [] OTHER ->
           Ok(IndexOfYear(c, date[1]) * num_days_of_year(c) + date[3] - 1
              + SumDays(PyPrefix(c.months, date[2] - 1))
              + c.day_zero)

date_to_timestamp(c, date) == TimestampIfValid(c, date, verify_date(c, date))

(***************************************************************************)
(* The lookups over the month and holiday lists.                           *)
(***************************************************************************)
\* the first of a set of list positions, in list order
First(positions) == CHOOSE i \in positions : \A j \in positions : i <= j

\* Calendar._search_month: the 1-based number of the month
search_month(c, month_name) ==
    LET found == {i \in 1..Len(c.months) : c.months[i].name = month_name} IN
    IF found = {} THEN Raise("Exception") ELSE Ok(First(found))

\* Calendar._search_holiday
search_holiday(c, holiday_name) ==
    LET found == {i \in 1..Len(c.holidays) : c.holidays[i].name = holiday_name} IN
    IF found = {} THEN Raise("Exception") ELSE Ok(c.holidays[First(found)])

\* Calendar._try_get_holiday: the name, or None
try_get_holiday(c, month, day) ==
    LET found == {i \in 1..Len(c.holidays) :
                    c.holidays[i].month = month /\ c.holidays[i].day = day}
    IN IF found = {}
       THEN [none |-> TRUE, name |-> ""]
       ELSE [none |-> FALSE, name |-> c.holidays[First(found)].name]

\* the truth value of a str | None
Truthy(x) == ~x.none /\ x.name # ""

(***************************************************************************)
(* Calendar.str_to_timestamp                                               *)
(***************************************************************************)
Parsed(day, month, year, era) ==
    [err |-> "", day |-> day, month |-> month, year |-> year, era |-> era]

ParseFailed(e) == [err |-> e, day |-> 0, month |-> 0, year |-> 0, era |-> ""]

\* Special days inbetween months: m is the match of PATTERN_SPECIAL_DATE
WithHoliday(s, m, holiday) ==
    IF holiday.err # ""
    THEN ParseFailed(holiday.err)
    ELSE Parsed(holiday.val.day, holiday.val.month,
                ParseInt(Group(s, m, 3, 3)), Group(s, m, 5, 5))

\* no pattern matched: before_or_after is unbound when line 102 reads it
ParseSpecial(c, s, m) ==
    IF m.ok
    THEN WithHoliday(s, m, search_holiday(c, Group(s, m, 1, 1)))
    ELSE ParseFailed("UnboundLocalError")

\* Dates like 23rd of July 1978: m is the match of PATTERN_WORDED_DATE
WithMonth(s, m, month) ==
    IF month.err # ""
    THEN ParseFailed(month.err)
    ELSE Parsed(ParseInt(Group(s, m, 1, 1)), month.val,
                ParseInt(Group(s, m, 9, 9)), Group(s, m, 11, 11))

ParseWorded(c, s, m) ==
    IF m.ok
    THEN WithMonth(s, m, search_month(c, Group(s, m, 6, 7)))
    ELSE ParseSpecial(c, s, Match(PATTERN_SPECIAL_DATE, s))

\* Dates like 23/7/1978: m is the match of PATTERN_SLASH_DATE
ParseSlash(c, s, m) ==
    IF m.ok
    THEN Parsed(ParseInt(Group(s, m, 1, 1)), ParseInt(Group(s, m, 3, 3)),
                ParseInt(Group(s, m, 5, 5)), Group(s, m, 7, 7))
    ELSE ParseWorded(c, s, Match(PATTERN_WORDED_DATE, s))

\* the if / elif chain: day, month, year and the era token (empty: None)
ParseDate(c, s) == ParseSlash(c, s, Match(PATTERN_SLASH_DATE, s))

\* if before_or_after: ... the year, negated for the "before" token
EraYear(c, year, era) ==
    CASE era = "" -> Ok(year)
      [] era # "" /\ era = c.before -> Ok(-year)
      [] era # "" /\ era # c.before /\ era # c.after -> Raise("Exception")
      [] OTHER -> Ok(year)

\* return self.date_to_timestamp((year, month, day))
TimestampOfYear(c, p, year) ==
    IF year.err # ""
    THEN Raise(year.err)
    ELSE date_to_timestamp(c, <<year.val, p.month, p.day>>)

TimestampOfParsed(c, p) ==
    IF p.err # ""
    THEN Raise(p.err)
    ELSE TimestampOfYear(c, p, EraYear(c, p.year, p.era))

str_to_timestamp(c, s) == TimestampOfParsed(c, ParseDate(c, s))

(***************************************************************************)
(* Calendar.timestamp_to_str                                               *)
(***************************************************************************)
\* f"{holiday_str} {year_str} {before_or_after}"
HolidayForm(holiday_str, year_str, before_or_after) ==
    holiday_str \o " " \o year_str \o " " \o before_or_after

\* f"{day_str} of {month_str} {year_str} {before_or_after}"
WordedForm(day_str, month_str, year_str, before_or_after) ==
    day_str \o " of " \o month_str \o " " \o year_str \o " " \o before_or_after

\* the else branch: nth_from_day(day), then self._months[month - 1]["name"]
RenderWorded(day_str, month_rec, year_str, before_or_after) ==
    CASE day_str.err # "" -> Raise(day_str.err)
      [] day_str.err = "" /\ month_rec.err # "" -> Raise(month_rec.err)
      [] OTHER -> Ok(WordedForm(day_str.val, month_rec.val.name, year_str, before_or_after))

\* if holiday_str := self._try_get_holiday(month, day): ... else: ...
Render(c, month, day, year_str, before_or_after, holiday_str) ==
    IF Truthy(holiday_str)
    THEN Ok(HolidayForm(holiday_str.name, year_str, before_or_after))
    ELSE RenderWorded(nth_from_day(day), PyIndex(c.months, month - 1),
                      year_str, before_or_after)

\* d is what timestamp_to_date returned or raised
StrOfDate(c, d) ==
    IF d.err # ""
    THEN Raise(d.err)
    ELSE Render(c, d.val[2], d.val[3], FormatNat(Abs(d.val[1])),
                IF d.val[1] < 0 THEN c.before ELSE c.after,
                try_get_holiday(c, d.val[2], d.val[3]))

timestamp_to_str(c, timestamp) == StrOfDate(c, timestamp_to_date(c, timestamp))

(***************************************************************************)
(* Calendar.__init__: the fields are stored as given, nothing is checked;  *)
(* a today that is not an int is parsed with str_to_timestamp, by the      *)
(* calendar under construction.                                            *)
(***************************************************************************)
NoCalendar == [none |-> TRUE]

Fields(a, today) ==
    [months |-> a.months, before |-> a.before, after |-> a.after,
     has_year_zero |-> a.has_year_zero, holidays |-> a.holidays,
     day_zero |-> a.day_zero, today |-> today]

\* t is what str_to_timestamp(today) returned or raised
InitToday(a, t) == IF t.err # "" THEN Raise(t.err) ELSE Ok(Fields(a, t.val))

\* the new calendar, or the exception that str_to_timestamp(today) raised
init(a) ==
    IF a.today_is_int
    THEN Ok(Fields(a, a.today_int))
    ELSE InitToday(a, str_to_timestamp(Fields(a, 0), a.today_str))

(***************************************************************************)
(* The values a caller passes where the methods below name a date.  Date   *)
(* is the alias tuple[int, int, int]: timestamp_to_date returns a plain    *)
(* tuple and the tests pass plain tuples, and they pass an int to          *)
(* day_of_year.  The methods read date.year, date.month and date.day,      *)
(* which only a triple with these attributes (a named tuple) has.          *)
(***************************************************************************)
PlainTuple(date) == [shape |-> "tuple", ymd |-> date]
WithAttrs(date) == [shape |-> "attrs", ymd |-> date]
AnInt(t) == [shape |-> "int", ymd |-> <<t, 0, 0>>]

\* year, month, day = date (line 123), with the value the caller passed
VerifyArg(c, x) ==
    IF x.shape = "int" THEN Raise("TypeError") ELSE verify_date(c, x.ymd)

\* date.year, date.month, date.day
Attrs(x) == IF x.shape = "attrs" THEN Ok(x.ymd) ELSE Raise("AttributeError")

\* if not self.verify_date(date): raise DateError(date); return r
\* (the module defines no DateError: evaluating the name raises NameError)
IfVerified(v, r) ==
    CASE v.err # "" -> Raise(v.err)
      [] v.err = "" /\ ~v.val -> Raise("NameError")
      [] OTHER -> r

\* lst[a:b] for 0 <= a
PySlice(lst, a, b) == SubSeq(lst, a + 1, Min(b, Len(lst)))

(***************************************************************************)
(* Calendar.day_of_year and remainder_of_year.  The                        *)
(* private methods are applied to the (year, month, day) of a date that    *)
(* has the attributes and that verify_date accepted.                       *)
(***************************************************************************)
DayOfYearOf(c, date) == date[3] + SumDays(PyPrefix(c.months, date[2] - 1))

\* Calendar._day_of_year
IfAttrsDayOfYear(c, a) == IF a.err # "" THEN Raise(a.err) ELSE Ok(DayOfYearOf(c, a.val))

day_of_year(c, x) == IfVerified(VerifyArg(c, x), IfAttrsDayOfYear(c, Attrs(x)))

RemainderOfMonthOf(c, date) == c.months[date[2]].days - date[3]

RemainderOfYearOf(c, date) ==
    RemainderOfMonthOf(c, date) + SumDays(PySlice(c.months, date[2], Len(c.months)))

\* Calendar._remainder_of_year
IfAttrsRemainderOfYear(c, a) ==
    IF a.err # "" THEN Raise(a.err) ELSE Ok(RemainderOfYearOf(c, a.val))

remainder_of_year(c, x) ==
    IfVerified(VerifyArg(c, x), IfAttrsRemainderOfYear(c, Attrs(x)))

(***************************************************************************)
(* Calendar.shifted_date.  Line 173 copies the date with                   *)
(* Date(date.year, date.month, date.day): a plain tuple has no attributes, *)
(* and Date, the alias tuple[int, int, int], takes one argument, so the    *)
(* call raises whatever the date is.  The lines after it are translated as *)
(* they are written, on the copy that line 173 would bind.                 *)
(***************************************************************************)
\* what a function returns that ends without a return statement
None == <<>>

\* Date(year, month, day): tuple expected at most 1 argument
DateCall(date) == Raise("TypeError")

\* for month in self._months: ... (lines 188-194)
RECURSIVE ForwardLoop(_, _, _, _)
ForwardLoop(months, i, date, days) ==
    CASE i > Len(months) -> Ok(None)
      [] i <= Len(months) /\ days >= months[i].days ->
           ForwardLoop(months, i + 1, <<date[1], date[2] + 1, date[3]>>, days - months[i].days)
      [] OTHER -> Ok(<<date[1], date[2], date[3] + days>>)

\* remainder = self._remainder_of_year(shifted_date); if days > remainder: ...
ForwardYear(c, date, days) ==
    IF days > RemainderOfYearOf(c, date)
    THEN ForwardLoop(c.months, 1, <<date[1] + 1, 1, 1>>,
                     days - (RemainderOfYearOf(c, date) + 1))
    ELSE ForwardLoop(c.months, 1, date, days)

\* years, days = divmod(days, self.num_days_of_year); shifted_date.year += years
ForwardFrom(c, date, dm) ==
    IF dm.err # ""
    THEN Raise(dm.err)
    ELSE ForwardYear(c, <<date[1] + dm.val[1], date[2], date[3]>>, dm.val[2])

\* for month in self._months[-1::-1]: ... (lines 206-212)
RECURSIVE BackwardLoop(_, _, _, _)
BackwardLoop(months, i, date, days) ==
    CASE i < 1 -> Ok(None)
      [] i >= 1 /\ days >= months[i].days ->
           BackwardLoop(months, i - 1, <<date[1], date[2] - 1, date[3]>>, days - months[i].days)
      [] OTHER -> Ok(<<date[1], date[2], date[3] - days>>)

\* remainder = self._day_of_year(shifted_date); if days >= remainder: ...
BackwardYear(c, date, days) ==
    IF days >= DayOfYearOf(c, date)
    THEN BackwardLoop(c.months, Len(c.months),
                      <<date[1] - 1, Len(c.months), c.months[Len(c.months)].days>>,
                      days - DayOfYearOf(c, date))
    ELSE BackwardLoop(c.months, Len(c.months), date, days)

\* years, days = divmod(-days, self.num_days_of_year); shifted_date.year -= years
BackwardFrom(c, date, dm) ==
    IF dm.err # ""
    THEN Raise(dm.err)
    ELSE BackwardYear(c, <<date[1] - dm.val[1], date[2], date[3]>>, dm.val[2])

\* lines 175-212, shifted_date being the copy of line 173
ShiftCopy(c, shifted, days) ==
    CASE shifted.err # "" -> Raise(shifted.err)
      [] shifted.err = "" /\ days = 0 -> Ok(shifted.val)
      [] shifted.err = "" /\ days > 0 ->
           ForwardFrom(c, shifted.val, PyDivmod(days, num_days_of_year(c)))
      [] OTHER -> BackwardFrom(c, shifted.val, PyDivmod(-days, num_days_of_year(c)))

\* shifted_date = Date(date.year, date.month, date.day)
CopyOf(a) == IF a.err # "" THEN Raise(a.err) ELSE DateCall(a.val)

\* Calendar._shifted_date
ShiftedDateOf(c, x, days) == ShiftCopy(c, CopyOf(Attrs(x)), days)

shifted_date(c, x, days) == IfVerified(VerifyArg(c, x), ShiftedDateOf(c, x, days))

(***************************************************************************)
(* Calendar.days_between_dates                                             *)
(***************************************************************************)
\* date2 < date1 of two tuples: the lexicographic order
TupleLess(d, e) ==
    \/ d[1] < e[1]
    \/ d[1] = e[1] /\ d[2] < e[2]
    \/ d[1] = e[1] /\ d[2] = e[2] /\ d[3] < e[3]

\* lines 227-235, for date1 < date2
DaysFromTo(c, date1, date2) ==
    CASE date2[1] - date1[1] > 0 ->
           RemainderOfYearOf(c, date1) + DayOfYearOf(c, date2)
           + (date2[1] - date1[1] - 1) * num_days_of_year(c)
      [] date2[1] - date1[1] <= 0 /\ date2[2] > date1[2] ->
           RemainderOfMonthOf(c, date1) + date2[3]
           + SumDays(PySlice(c.months, date1[2], date2[2]))
      [] OTHER -> date2[3] - date1[3]

\* Calendar._days_between_dates: line 227 reads date2.year and date1.year
DaysBetweenOf(c, x1, x2) ==
    CASE x1.ymd = x2.ymd -> Ok(0)
      [] x1.ymd # x2.ymd /\ (x1.shape # "attrs" \/ x2.shape # "attrs") ->
           Raise("AttributeError")
      [] x1.ymd # x2.ymd /\ x1.shape = "attrs" /\ x2.shape = "attrs"
         /\ TupleLess(x2.ymd, x1.ymd) -> Ok(-DaysFromTo(c, x2.ymd, x1.ymd))
      [] OTHER -> Ok(DaysFromTo(c, x1.ymd, x2.ymd))

days_between_dates(c, x1, x2) ==
    IfVerified(VerifyArg(c, x1), IfVerified(VerifyArg(c, x2), DaysBetweenOf(c, x1, x2)))

(***************************************************************************)
(* The configurations a client constructs.  The first layout is the one    *)
(* of tests/test_calendar.py; the others have months of different lengths, *)
(* a month with a one-letter name, holidays on the same day and a holiday  *)
(* without a name; the last three are month lists the specification rules  *)
(* out (empty, or with a day count that is not positive).                  *)
(***************************************************************************)
Month(name, days) == [name |-> name, days |-> days]
Holiday(name, month, day) == [name |-> name, month |-> month, day |-> day]

Layout(months, holidays, before, after) ==
    [months |-> months, holidays |-> holidays, before |-> before, after |-> after]

FixtureLayout ==
    Layout(<<Month("first month", 30), Month("second month", 30), Month("third month", 30)>>,
           <<Holiday("first special day", 1, 3), Holiday("second special day", 3, 9),
             Holiday("third special day", 3, 30)>>,
           "before", "after")

ValidLayouts ==
    {FixtureLayout,
     Layout(<<Month("Hammer", 2), Month("Alturiak", 3)>>,
            <<Holiday("Midwinter", 1, 2), Holiday("Feast of the Moon", 1, 2),
              Holiday("Nowhere", 4, 1)>>,
            "before", "after"),
     Layout(<<Month("Hammer", 3), Month("M", 1), Month("Ches", 2)>>,
            <<Holiday("", 3, 1), Holiday("Shieldmeet", 3, 1), Holiday("Greengrass", 1, 1)>>,
            "DR", "PR"),
     Layout(<<Month("Only", 2)>>, <<>>, "before", "after")}

InvalidLayouts ==
    {Layout(<<>>, <<>>, "before", "after"),
     Layout(<<Month("Hammer", 0)>>, <<>>, "before", "after"),
     Layout(<<Month("Hammer", 2), Month("Alturiak", -1)>>, <<>>, "before", "after")}

DayZeros == {-90, -1, 0, 1, 90}

TodayStrings ==
    {"1/1/1", "12th of third month 17", "1st of Hammer 1 after", "2/2/1",
     "garbage", "1/1/1 later", "5th of Nomonth 1"}

\* today is an int (today_int) or a str (today_str)
CtorArgs(l, hyz, dz, is_int, today_int, today_str) ==
    [months |-> l.months, holidays |-> l.holidays, before |-> l.before,
     after |-> l.after, has_year_zero |-> hyz, day_zero |-> dz,
     today_is_int |-> is_int, today_int |-> today_int, today_str |-> today_str]

CtorInputs ==
    {CtorArgs(l, hyz, dz, TRUE, 0, "") :
        l \in ValidLayouts, hyz \in BOOLEAN, dz \in DayZeros}
    \cup {CtorArgs(l, hyz, 0, TRUE, 0, "") : l \in InvalidLayouts, hyz \in BOOLEAN}
    \cup {CtorArgs(l, FALSE, 0, FALSE, 0, today) :
            l \in ValidLayouts \cup InvalidLayouts, today \in TodayStrings}

(***************************************************************************)
(* The arguments a client passes to the calls.                             *)
(***************************************************************************)
\* the timestamps of tests/test_calendar.py
TestTimestamps == {181291, 812, 8999, -38, -139}

Timestamps == (-MaxT..MaxT) \cup TestTimestamps

RECURSIVE LongestMonth(_)
LongestMonth(months) ==
    IF Len(months) = 0
    THEN 0
    ELSE LET rest == LongestMonth(Tail(months)) IN
         IF months[1].days > rest THEN months[1].days ELSE rest

\* every date of the years around the era boundary, and the triples just
\* outside the month list and the months' lengths
Dates(c) ==
    (-MaxYear..MaxYear)
        \X ((-Len(c.months) - 1)..(Len(c.months) + 1))
        \X (-1..(LongestMonth(c.months) + 1))

YearTexts == {FormatNat(y) : y \in 0..MaxYear} \cup {"00"}

EraTexts(c) == {"", " " \o c.before, " " \o c.after, c.before, " later"}

\* the three forms of a date text, with the given year texts
StringsOfYears(c, years) ==
    {FormatNat(d) \o "/" \o FormatNat(m) \o "/" \o y \o e :
        d \in 0..2, m \in 0..(Len(c.months) + 1), y \in years, e \in EraTexts(c)}
    \cup {d \o " of " \o c.months[m].name \o " " \o y \o e :
            d \in {"0th", "1st", "2nd", "3rd", "4th"}, m \in 1..Len(c.months),
            y \in years, e \in EraTexts(c)}
    \cup {"1st of Nomonth " \o y \o e : y \in years, e \in EraTexts(c)}
    \cup {c.holidays[h].name \o " " \o y \o e :
            h \in 1..Len(c.holidays), y \in years, e \in EraTexts(c)}
    \cup {"Noholiday " \o y \o e : y \in years, e \in EraTexts(c)}

\* the text r, if timestamp_to_str returned one
Rendered(r) == IF r.err = "" THEN r.val ELSE ""

\* those texts, texts of no form, and the texts the calendar itself renders
Strings(c) ==
    StringsOfYears(c, YearTexts)
    \cup {"garbage", ""}
    \cup {Rendered(timestamp_to_str(c, t)) : t \in Timestamps}

\* what is passed as a date: an int, as the tests do, or a triple
DateArgs(c) ==
    {AnInt(t) : t \in Timestamps}
    \cup {PlainTuple(d) : d \in Dates(c)}
    \cup {WithAttrs(d) : d \in Dates(c)}

\* the first two days and the last day of every month, in the years around
\* the era boundary, and three triples that are no dates
EdgeDates(c) ==
    {d \in Dates(c) :
        /\ d[2] \in 1..Len(c.months)
        /\ d[3] \in {1, 2, c.months[d[2]].days}}
    \cup {<<0, 1, 1>>, <<1, Len(c.months) + 1, 1>>, <<1, 1, 0>>}

EdgeArgs(c) ==
    {PlainTuple(d) : d \in EdgeDates(c)} \cup {WithAttrs(d) : d \in EdgeDates(c)}

ShiftDays == (-MaxShift)..MaxShift

(***************************************************************************)
(* The state machine: a client constructs a calendar and then calls its    *)
(* methods, one call at a time.  op, arg and res are the call in progress, *)
(* its argument and what it returned or raised.                            *)
(***************************************************************************)
Idle == op = "idle"

Init ==
    /\ cal = NoCalendar
    /\ op = "idle"
    /\ arg = 0
    /\ res = Ok(0)

\* c = Calendar(...): a constructor that raises leaves no calendar
Constructed(a, r) ==
    /\ cal' = IF r.err = "" THEN r.val ELSE NoCalendar
    /\ op' = "__init__"
    /\ arg' = a
    /\ res' = IF r.err = "" THEN Ok(0) ELSE r

Construct ==
    /\ Idle
    /\ cal = NoCalendar
    /\ \E a \in CtorInputs : Constructed(a, init(a))

CallTimestampToDate ==
    /\ Idle
    /\ cal # NoCalendar
    /\ \E t \in Timestamps :
          /\ op' = "timestamp_to_date"
          /\ arg' = t
          /\ res' = timestamp_to_date(cal, t)
    /\ UNCHANGED cal

CallDateToTimestamp ==
    /\ Idle
    /\ cal # NoCalendar
    /\ \E d \in Dates(cal) :
          /\ op' = "date_to_timestamp"
          /\ arg' = d
          /\ res' = date_to_timestamp(cal, d)
    /\ UNCHANGED cal

CallVerifyDate ==
    /\ Idle
    /\ cal # NoCalendar
    /\ \E d \in Dates(cal) :
          /\ op' = "verify_date"
          /\ arg' = d
          /\ res' = verify_date(cal, d)
    /\ UNCHANGED cal

CallStrToTimestamp ==
    /\ Idle
    /\ cal # NoCalendar
    /\ \E s \in Strings(cal) :
          /\ op' = "str_to_timestamp"
          /\ arg' = s
          /\ res' = str_to_timestamp(cal, s)
    /\ UNCHANGED cal

CallTimestampToStr ==
    /\ Idle
    /\ cal # NoCalendar
    /\ \E t \in Timestamps :
          /\ op' = "timestamp_to_str"
          /\ arg' = t
          /\ res' = timestamp_to_str(cal, t)
    /\ UNCHANGED cal

CallDayOfYear ==
    /\ Idle
    /\ cal # NoCalendar
    /\ \E x \in DateArgs(cal) :
          /\ op' = "day_of_year"
          /\ arg' = x
          /\ res' = day_of_year(cal, x)
    /\ UNCHANGED cal

CallRemainderOfYear ==
    /\ Idle
    /\ cal # NoCalendar
    /\ \E x \in DateArgs(cal) :
          /\ op' = "remainder_of_year"
          /\ arg' = x
          /\ res' = remainder_of_year(cal, x)
    /\ UNCHANGED cal

CallShiftedDate ==
    /\ Idle
    /\ cal # NoCalendar
    /\ \E x \in EdgeArgs(cal) \cup {AnInt(0)}, days \in ShiftDays :
          /\ op' = "shifted_date"
          /\ arg' = [date |-> x, days |-> days]
          /\ res' = shifted_date(cal, x, days)
    /\ UNCHANGED cal

CallDaysBetweenDates ==
    /\ Idle
    /\ cal # NoCalendar
    /\ \E d1 \in EdgeDates(cal), d2 \in EdgeDates(cal), attrs \in BOOLEAN :
          /\ op' = "days_between_dates"
          /\ arg' = IF attrs
                    THEN [date1 |-> WithAttrs(d1), date2 |-> WithAttrs(d2)]
                    ELSE [date1 |-> PlainTuple(d1), date2 |-> PlainTuple(d2)]
          /\ res' = IF attrs
                    THEN days_between_dates(cal, WithAttrs(d1), WithAttrs(d2))
                    ELSE days_between_dates(cal, PlainTuple(d1), PlainTuple(d2))
    /\ UNCHANGED cal

\* the call returns (or its exception is handled): the client may call again
Return ==
    /\ ~Idle
    /\ op' = "idle"
    /\ arg' = 0
    /\ res' = Ok(0)
    /\ UNCHANGED cal

Next ==
    \/ Construct
    \/ CallTimestampToDate
    \/ CallDateToTimestamp
    \/ CallVerifyDate
    \/ CallStrToTimestamp
    \/ CallTimestampToStr
    \/ CallDayOfYear
    \/ CallRemainderOfYear
    \/ CallShiftedDate
    \/ CallDaysBetweenDates
    \/ Return

Spec == Init /\ [][Next]_vars

(***************************************************************************)
(* Vocabulary of the properties.                                           *)
(***************************************************************************)
\* the month list the data model allows: not empty, every day count positive
WellFormed(c) ==
    /\ c # NoCalendar
    /\ Len(c.months) >= 1
    /\ \A i \in 1..Len(c.months) : c.months[i].days > 0

Returned(r, v) == r.err = "" /\ r.val = v

\* the validity invariant of a date, as the data model states it
ValidDate(c, date) ==
    /\ 1 <= date[2] /\ date[2] <= Len(c.months)
    /\ 1 <= date[3] /\ date[3] <= c.months[date[2]].days
    /\ (c.has_year_zero \/ date[1] # 0)

\* (year, month, day) in lexicographic order
LexLE(d, e) ==
    \/ d[1] < e[1]
    \/ d[1] = e[1] /\ d[2] < e[2]
    \/ d[1] = e[1] /\ d[2] = e[2] /\ d[3] <= e[3]

(***************************************************************************)
(* C1: in a calendar with a well-formed month list, whatever has_year_zero *)
(* and day_zero are, every date d that verify_date accepts satisfies       *)
(* timestamp_to_date(date_to_timestamp(d)) = d.                            *)
(***************************************************************************)
C1_DateRoundTrip ==
    (op = "date_to_timestamp" /\ WellFormed(cal) /\ Returned(verify_date(cal, arg), TRUE))
        => /\ res.err = ""
           /\ Returned(timestamp_to_date(cal, res.val), arg)

\* a date before the era boundary, not in the first month, with day_zero set
C1_Witness ==
    /\ op = "date_to_timestamp" /\ WellFormed(cal)
    /\ Returned(verify_date(cal, arg), TRUE)
    /\ ~cal.has_year_zero /\ cal.day_zero # 0
    /\ arg[1] < 0 /\ arg[2] > 1 /\ arg[3] > 1
    /\ Returned(timestamp_to_date(cal, res.val), arg)

(***************************************************************************)
(* C2: in a calendar with a well-formed month list, for every timestamp t  *)
(* (negative, zero or positive), timestamp_to_date(t) returns a date that  *)
(* verify_date accepts, and date_to_timestamp of that date is t.           *)
(***************************************************************************)
C2_TimestampRoundTrip ==
    (op = "timestamp_to_date" /\ WellFormed(cal))
        => /\ res.err = ""
           /\ Returned(verify_date(cal, res.val), TRUE)
           /\ Returned(date_to_timestamp(cal, res.val), arg)

\* a negative timestamp that falls into year 0 of a calendar that has one
C2_Witness ==
    /\ op = "timestamp_to_date" /\ WellFormed(cal)
    /\ cal.has_year_zero /\ arg < 0
    /\ res.err = "" /\ res.val[1] = 0 /\ res.val[2] > 1
    /\ Returned(date_to_timestamp(cal, res.val), arg)

(***************************************************************************)
(* C3: for every timestamp t, str_to_timestamp(timestamp_to_str(t)) = t,   *)
(* when the month names and the holiday names are pairwise distinct and    *)
(* have no digit and the era tokens are two distinct single words.         *)
(***************************************************************************)
RECURSIVE AllInClass(_, _)
AllInClass(text, cls) ==
    \/ Len(text) = 0
    \/ InClass(CharAt(text, 1), cls) /\ AllInClass(SubSeq(text, 2, Len(text)), cls)

Distinct(seq) == \A i, j \in 1..Len(seq) : seq[i].name = seq[j].name => i = j

\* what C3 asks of the configured names
NamesAsClaimed(c) ==
    /\ Distinct(c.months) /\ Distinct(c.holidays)
    /\ \A i \in 1..Len(c.months) : AllInClass(c.months[i].name, "D")
    /\ \A i \in 1..Len(c.holidays) : AllInClass(c.holidays[i].name, "D")
    /\ c.before # c.after
    /\ c.before # "" /\ AllInClass(c.before, "w")
    /\ c.after # "" /\ AllInClass(c.after, "w")

C3_StringRoundTrip ==
    (op = "timestamp_to_str" /\ WellFormed(cal) /\ NamesAsClaimed(cal))
        => /\ res.err = ""
           /\ Returned(str_to_timestamp(cal, res.val), arg)

(***************************************************************************)
(* C4: for timestamps t1 < t2, timestamp_to_date(t1) is at most            *)
(* timestamp_to_date(t2) in the lexicographic order of (year, month, day), *)
(* also across the era boundary (with and without a year 0).               *)
(***************************************************************************)
C4_Monotone ==
    (op = "timestamp_to_date" /\ WellFormed(cal))
        => \A t2 \in Timestamps :
              arg < t2 =>
                 /\ res.err = ""
                 /\ timestamp_to_date(cal, t2).err = ""
                 /\ LexLE(res.val, timestamp_to_date(cal, t2).val)

\* the last day before the era boundary: the next timestamp is in year 1
C4_Witness ==
    /\ op = "timestamp_to_date" /\ WellFormed(cal)
    /\ ~cal.has_year_zero /\ Len(cal.months) > 1
    /\ res.err = "" /\ res.val[1] = -1
    /\ arg + 1 \in Timestamps
    /\ timestamp_to_date(cal, arg + 1) = Ok(<<1, 1, 1>>)

(***************************************************************************)
(* C5: when has_year_zero is false, timestamp_to_date returns year 0 for   *)
(* no timestamp, and date_to_timestamp and str_to_timestamp raise for      *)
(* every date and every text whose year is 0, with or without an era       *)
(* token.                                                                  *)
(***************************************************************************)
ZeroYearStrings(c) == StringsOfYears(c, {"0", "00"})

C5_YearZeroSkipped ==
    (cal # NoCalendar /\ op # "__init__" /\ op # "idle" /\ ~cal.has_year_zero)
        => /\ (op = "timestamp_to_date" /\ res.err = "") => res.val[1] # 0
           /\ (op = "date_to_timestamp" /\ arg[1] = 0) => res.err # ""
           /\ (op = "str_to_timestamp" /\ arg \in ZeroYearStrings(cal)) => res.err # ""

\* year 0 with the "before" token, day and month in range: refused
C5_Witness ==
    /\ op = "str_to_timestamp" /\ WellFormed(cal) /\ ~cal.has_year_zero
    /\ arg = "1/1/0 " \o cal.before
    /\ res.err = "ValueError"

(***************************************************************************)
(* C6: when the (month, day) of timestamp t is that of a configured        *)
(* holiday, timestamp_to_str(t) is "<name> <abs(year)> <era>" with the     *)
(* name of the first such holiday of the list; when it is the day of no    *)
(* holiday, "<ordinal day> of <month name> <abs(year)> <era>".             *)
(***************************************************************************)
HolidaysOn(c, month, day) ==
    {i \in 1..Len(c.holidays) : c.holidays[i].month = month /\ c.holidays[i].day = day}

C6_HolidayPrecedence ==
    (op = "timestamp_to_str" /\ WellFormed(cal))
        => LET d == timestamp_to_date(cal, arg).val
               on == HolidaysOn(cal, d[2], d[3])
               tail == " " \o FormatNat(Abs(d[1])) \o " "
                           \o (IF d[1] < 0 THEN cal.before ELSE cal.after)
           IN /\ res.err = ""
              /\ on # {} => res.val = cal.holidays[First(on)].name \o tail
              /\ on = {} => res.val = nth_from_day(d[3]).val \o " of "
                                          \o cal.months[d[2]].name \o tail

(***************************************************************************)
(* C7: date_to_timestamp raises the invalid-date error (ValueError) for    *)
(* every date that breaks the validity invariant, and so does              *)
(* str_to_timestamp for a text whose parsed date breaks it.                *)
(***************************************************************************)
C7_InvalidDateError ==
    /\ (op = "date_to_timestamp" /\ WellFormed(cal) /\ ~ValidDate(cal, arg))
          => res.err = "ValueError"
    /\ (op = "str_to_timestamp" /\ WellFormed(cal))
          => LET p == ParseDate(cal, arg)
                 year == EraYear(cal, p.year, p.era)
             IN (p.err = "" /\ year.err = "" /\ ~ValidDate(cal, <<year.val, p.month, p.day>>))
                   => res.err = "ValueError"

(***************************************************************************)
(* C8: verify_date raises nothing: for every triple of integers it returns *)
(* a boolean, which is true exactly when the validity invariant holds.     *)
(***************************************************************************)
C8_VerifyDateTotal ==
    (op = "verify_date" /\ WellFormed(cal))
        => /\ res.err = ""
           /\ res.val = ValidDate(cal, arg)

(***************************************************************************)
(* C9: Calendar(...) raises, and leaves no calendar, when the month list   *)
(* is empty, when a month has a day count that is not positive, or when    *)
(* today is a text that does not parse.                                    *)
(***************************************************************************)
BadMonths(months) ==
    \/ Len(months) = 0
    \/ \E i \in 1..Len(months) : months[i].days <= 0

C9_ConstructionFails ==
    (op = "__init__"
        /\ \/ BadMonths(arg.months)
           \/ ~arg.today_is_int /\ str_to_timestamp(Fields(arg, 0), arg.today_str).err # "")
        => res.err # "" /\ cal = NoCalendar

(***************************************************************************)
(* C10: a calendar with day_zero = d maps timestamp t to the date to which *)
(* the same calendar with day_zero = 0 maps t - d; with the 90-day year of *)
(* the tests and no year 0, timestamp 0 is (-1,3,30) for d = 1, (-1,1,1)   *)
(* for d = 90 and (2,1,1) for d = -90.                                     *)
(***************************************************************************)
C10_DayZeroShift ==
    (op = "timestamp_to_date" /\ WellFormed(cal))
        => /\ res.err = ""
           /\ res = timestamp_to_date([cal EXCEPT !.day_zero = 0], arg - cal.day_zero)
           /\ (cal.months = FixtureLayout.months /\ ~cal.has_year_zero /\ arg = 0)
                 => /\ cal.day_zero = 0 => res.val = <<1, 1, 1>>
                    /\ cal.day_zero = 1 => res.val = <<-1, 3, 30>>
                    /\ cal.day_zero = 90 => res.val = <<-1, 1, 1>>
                    /\ cal.day_zero = -90 => res.val = <<2, 1, 1>>

\* timestamp 0 of the calendar of the tests with day_zero = 90
C10_Witness ==
    /\ op = "timestamp_to_date" /\ cal # NoCalendar
    /\ cal.months = FixtureLayout.months /\ ~cal.has_year_zero
    /\ cal.day_zero = 90 /\ arg = 0
    /\ res = Ok(<<-1, 1, 1>>)

(***************************************************************************)
(* C11: for every integer timestamp t, day_of_year(t) returns              *)
(* t - date_to_timestamp((year, 1, 1)) + 1, where year is the year of      *)
(* timestamp_to_date(t); the result is the position of the date within its *)
(* year, between 1 and the number of days of a year, also in negative      *)
(* years.                                                                  *)
(***************************************************************************)
C11_DayOfYear ==
    (op = "day_of_year" /\ arg.shape = "int" /\ WellFormed(cal))
        => LET t == arg.ymd[1]
               year == timestamp_to_date(cal, t).val[1]
               first == date_to_timestamp(cal, <<year, 1, 1>>).val
           IN /\ res = Ok(t - first + 1)
              /\ res.val \in 1..num_days_of_year(cal)

(***************************************************************************)
(* C12: for every integer timestamp t, rest_of_year(t) returns             *)
(* date_to_timestamp((next_year, 1, 1)) - t - 1, where next_year is the    *)
(* year of timestamp_to_date(t + days per year): the number of days after  *)
(* t up to the last day of t's year, between 0 and days per year - 1, also *)
(* in year -1 of a calendar without a year zero.                           *)
(***************************************************************************)
C12_RestOfYear ==
    (op = "remainder_of_year" /\ arg.shape = "int" /\ WellFormed(cal))
        => LET t == arg.ymd[1]
               next_year == timestamp_to_date(cal, t + num_days_of_year(cal)).val[1]
               next == date_to_timestamp(cal, <<next_year, 1, 1>>).val
           IN /\ res = Ok(next - t - 1)
              /\ res.val \in 0..(num_days_of_year(cal) - 1)

(***************************************************************************)
(* C13: in timestamp_to_date, the quotient of the floor division of        *)
(* timestamp - day_zero by the days of a year (the zero-based year index)  *)
(* becomes the public year by adding 1 if the index is >= 0 or the         *)
(* calendar has a year zero, and is left as it is otherwise.  The claim as *)
(* first stated adds 1 when the calendar has no year zero.                 *)
(***************************************************************************)
\* index is the floor of (timestamp - day_zero) / days of a year
IsYearIndex(c, timestamp, index) ==
    /\ index * num_days_of_year(c) <= timestamp - c.day_zero
    /\ timestamp - c.day_zero < (index + 1) * num_days_of_year(c)

C13_YearAdjust ==
    (op = "timestamp_to_date" /\ WellFormed(cal))
        => /\ res.err = ""
           /\ \E index \in {res.val[1] - 1, res.val[1]} :
                 /\ IsYearIndex(cal, arg, index)
                 /\ res.val[1] = IF index >= 0 \/ cal.has_year_zero
                                 THEN index + 1 ELSE index

\* a negative index in a calendar without a year zero: the year is the index
C13_Witness ==
    /\ op = "timestamp_to_date" /\ WellFormed(cal)
    /\ ~cal.has_year_zero /\ cal.day_zero # 0
    /\ res.err = "" /\ res.val[1] = -2
    /\ IsYearIndex(cal, arg, -2)

\* the claim as first stated: 1 is added if the index is >= 0 or year zero
\* is disabled
C13_AsStated ==
    (op = "timestamp_to_date" /\ WellFormed(cal))
        => /\ res.err = ""
           /\ \E index \in {res.val[1] - 1, res.val[1]} :
                 /\ IsYearIndex(cal, arg, index)
                 /\ res.val[1] = IF index >= 0 \/ ~cal.has_year_zero
                                 THEN index + 1 ELSE index

(***************************************************************************)
(* C14: in str_to_timestamp, for each of the three grammars, a trailing    *)
(* era token that is neither the "before" nor the "after" token makes the  *)
(* call raise and return no timestamp; with the "before" token the parsed  *)
(* year is negated before date_to_timestamp is called; without a token, or *)
(* with the "after" token, the year is passed on as parsed.                *)
(***************************************************************************)
\* the token of the era text e: e without the space before it
TokenOf(e) == IF e # "" /\ CharAt(e, 1) = " " THEN SubSeq(e, 2, Len(e)) ELSE e

\* what the claim says of the text of date (year, month, day) with era text e
EraResult(c, date, e) ==
    CASE TokenOf(e) \notin {"", c.before, c.after} -> Raise("Exception")
      [] TokenOf(e) = c.before -> date_to_timestamp(c, <<-date[1], date[2], date[3]>>)
      [] OTHER -> date_to_timestamp(c, date)

FirstNamed(holidays, name) ==
    holidays[First({i \in 1..Len(holidays) : holidays[i].name = name})]

C14_EraToken ==
    (op = "str_to_timestamp" /\ WellFormed(cal))
        => \A y \in YearTexts, e \in EraTexts(cal) :
              /\ \A d \in 0..2, m \in 0..(Len(cal.months) + 1) :
                    arg = FormatNat(d) \o "/" \o FormatNat(m) \o "/" \o y \o e
                       => res = EraResult(cal, <<ParseInt(y), m, d>>, e)
              /\ \A d \in 0..4, m \in 1..Len(cal.months) :
                    arg = nth_from_day(d).val \o " of " \o cal.months[m].name \o " " \o y \o e
                       => res = EraResult(cal, <<ParseInt(y), m, d>>, e)
              /\ \A h \in 1..Len(cal.holidays) :
                    arg = cal.holidays[h].name \o " " \o y \o e
                       => res = EraResult(cal, <<ParseInt(y),
                                                 FirstNamed(cal.holidays, cal.holidays[h].name).month,
                                                 FirstNamed(cal.holidays, cal.holidays[h].name).day>>, e)

(***************************************************************************)
(* C15: for every valid date d and every integer n (positive, zero or      *)
(* negative), shifted_date(d, n) returns a date that verify_date accepts   *)
(* and that is timestamp_to_date(date_to_timestamp(d) + n), the date n     *)
(* days after d.                                                           *)
(***************************************************************************)
C15_ShiftedDate ==
    (/\ op = "shifted_date" /\ WellFormed(cal)
     /\ arg.date.shape # "int" /\ ValidDate(cal, arg.date.ymd))
        => /\ res.err = ""
           /\ Returned(verify_date(cal, res.val), TRUE)
           /\ Returned(timestamp_to_date(cal, date_to_timestamp(cal, arg.date.ymd).val
                                                 + arg.days),
                       res.val)

(***************************************************************************)
(* C16: for all valid dates d1 and d2, days_between_dates(d1, d2) is       *)
(* date_to_timestamp(d2) - date_to_timestamp(d1), whether the dates are in *)
(* the same month, in different months of a year, in different years or on *)
(* opposite sides of the era boundary; and so it is the negative of        *)
(* days_between_dates(d2, d1).                                             *)
(***************************************************************************)
C16_DaysBetweenDates ==
    (/\ op = "days_between_dates" /\ WellFormed(cal)
     /\ ValidDate(cal, arg.date1.ymd) /\ ValidDate(cal, arg.date2.ymd))
        => /\ res = Ok(date_to_timestamp(cal, arg.date2.ymd).val
                       - date_to_timestamp(cal, arg.date1.ymd).val)
           /\ Returned(days_between_dates(cal, arg.date2, arg.date1), -res.val)

=============================================================================
